---------------------------- MODULE Spec2Model ----------------------------
(***************************************************************************)
(* A model of the three application variants of the repository:            *)
(*   - the synchronous AIApp, split over gui.py / ai_model.py / models.py  *)
(*     / model_info.py (variant "trio") and consolidated in main.py        *)
(*     (variant "main");                                                   *)
(*   - the threaded AIGUI of "Software Now Assignment 3.py"                *)
(*     (src/unnamed/part_000) with its mock models.                        *)
(* Python values are records [t, v]; exceptions are records [type, msg];   *)
(* the external pipeline library and the file system are inputs of the     *)
(* handlers, drawn from small sets.                                        *)
(***************************************************************************)
EXTENDS Integers, Sequences, FiniteSets, Bags, TLC

VARIABLES
    variant,        \* "trio" (gui.py + ai_model.py + models.py + model_info.py) or "main" (main.py)
    model_info,     \* ModelInfo._info
    input_type,     \* AIApp.input_type (the combobox text)
    loaded_as,      \* the input type under which input_data was stored ("" when it holds nothing)
    input_data,     \* AIApp.input_data
    model_var,      \* AIApp.model_var / AIGUI.model_var
    current_model,  \* AIApp.current_model / AIGUI.current_model
    output_text,    \* the output text widget
    info_text,      \* AIApp.info_text / AIGUI.model_info_text
    last,           \* the handler or call that ran last
    trace,          \* what that handler did, in order: dialogs, log lines, library calls
    escaped,        \* the exception that left that handler, NoExc when none did
    adapter,        \* an AIModel under direct use (unit level)
    ret,            \* what the last direct call returned or raised
    text_input,     \* the text given to TextClassificationModel.process_input
    result,         \* what process_input returned
    input_text,     \* AIGUI.input_text (the input text widget)
    process_btn,    \* the state of AIGUI.process_btn
    image_display,  \* the image AIGUI.image_display shows
    threads,        \* the worker threads of AIGUI, by slot
    after_queue,    \* the callbacks scheduled on the main loop with after(0, ...)
    loaded          \* the models whose load_model() has returned True so far

appVars  == <<input_type, input_data, loaded_as, model_var, current_model, output_text, info_text>>
obsVars  == <<last, trace, escaped>>
unitVars == <<adapter, ret>>
sentVars == <<text_input, result>>
guiVars  == <<input_text, process_btn, image_display, threads, after_queue, loaded>>
vars == <<variant, model_info, appVars, obsVars, unitVars, sentVars, guiVars>>

(***************************************************************************)
(* Python values and exceptions.                                           *)
(***************************************************************************)
None == [t |-> "None", v |-> ""]
Str(s) == [t |-> "str", v |-> s]
\* bool(x) of a str or None: the test behind `if not self.input_data`
Truthy(x) == x.t = "str" /\ x.v # ""

NoExc == [type |-> "", msg |-> ""]
Exc(type, msg) == [type |-> type, msg |-> msg]
\* the message of an error raised inside the external library
LibErr == "library error"

Variants == {"trio", "main"}

\* one entry of the trace: k is what kind of thing happened, a its text
Ev(k, a) == [k |-> k, a |-> a]
\* `except Exception as e` catching exc
ExcEv(exc) == [k |-> "except", a |-> exc.msg, type |-> exc.type]

(***************************************************************************)
(* ModelInfo                                                               *)
(***************************************************************************)
ModelInfo_init(v) ==
    IF v = "trio"
    THEN [k \in {"sentiment", "image", "text_to_image"} |->
            CASE k = "sentiment" -> "DistilBERT for sentiment analysis."
              [] k = "image" -> "CLIP for image classification."
              [] OTHER -> "Stable Diffusion v1-5 for text-to-image."]
    ELSE [k \in {"sentiment", "image", "text_to_image"} |->
            CASE k = "sentiment" -> "DistilBERT for sentiment analysis: Classifies text as positive/negative."
              [] k = "image" -> "CLIP for image classification: Describes or classifies images."
              [] OTHER -> "Stable Diffusion v1-5: Generates images from text."]

\* faulty variant: _info.get(model_type) without the default
get_info_no_default(info, model_type) ==
    IF model_type \in DOMAIN info THEN info[model_type] ELSE ""

\* self._info.get(model_type, 'No info available')
get_info(info, model_type) ==
    IF model_type \in DOMAIN info THEN info[model_type] ELSE "No info available"

(***************************************************************************)
(* The concrete models of models.py / main.py.  A model object is its      *)
(* class name; its only field, pipe, is kept by the AIModel record below.  *)
(* w is what the external library does in this call:                       *)
(*   w.load  "ok" | "fail" | "fail_to" (the .to("cpu") step fails)         *)
(*   w.call  TRUE when the pipeline call returns, FALSE when it raises     *)
(*   w.label the label the pipeline returns                                *)
(***************************************************************************)
Task(cls) ==
    CASE cls = "SentimentModel" -> "sentiment-analysis"
      [] cls = "ImageModel" -> "image-classification"
      [] OTHER -> "runwayml/stable-diffusion-v1-5"

LoadPrefix(cls) ==
    CASE cls = "SentimentModel" -> "Failed to load sentiment model: "
      [] cls = "ImageModel" -> "Failed to load image model: "
      [] OTHER -> "Failed to load text-to-image model: "

\* the image files that exist on disk
ExistingPaths == {"cat.png"}
\* os.path.exists(p) for a str p
exists(p) == p \in ExistingPaths

\* <Class>.load(): [pipe, exc, ev].  Only TextToImageModel has the .to("cpu") step, which
\* fails after self.pipe has been assigned.
Model_load(v, cls, pipe, w) ==
    LET lib == <<Ev("lib", "pipeline:" \o Task(cls))>>
        late == cls = "TextToImageModel" /\ w.load = "fail_to"
        raised == IF v = "main" THEN Exc("Exception", LoadPrefix(cls) \o LibErr)
                                ELSE Exc("OSError", LibErr)
    IN  IF w.load = "ok" \/ (w.load = "fail_to" /\ cls # "TextToImageModel")
        THEN [pipe |-> "loaded", exc |-> NoExc,
              ev |-> IF cls = "TextToImageModel" THEN lib \o <<Ev("lib", "to:cpu")>> ELSE lib]
        ELSE [pipe |-> IF late THEN "loaded" ELSE pipe, exc |-> raised,
              ev |-> IF late THEN lib \o <<Ev("lib", "to:cpu")>> ELSE lib]

\* self.pipe(x)...: calling the pipeline handle, which is None before load()
PipeCall(pipe, w, value) ==
    IF pipe = "None"
    THEN [ret |-> None, exc |-> Exc("TypeError", "'NoneType' object is not callable"), ev |-> <<>>]
    ELSE IF w.call
         THEN [ret |-> value, exc |-> NoExc, ev |-> <<Ev("lib", "pipe")>>]
         ELSE [ret |-> None, exc |-> Exc("RuntimeError", LibErr), ev |-> <<Ev("lib", "pipe")>>]

SentimentModel_predict(pipe, text, w) ==
    IF text.t # "str"
    THEN [ret |-> None, exc |-> Exc("ValueError", "Sentiment model requires text input"), ev |-> <<>>]
    ELSE PipeCall(pipe, w, Str(w.label))

\* faulty variant: the pipeline is called whether the path exists or not
ImageModel_predict_unchecked(pipe, image_path, w) ==
    LET r == PipeCall(pipe, w, Str("tabby"))
    IN  [r EXCEPT !.ev = <<Ev("os", "exists")>> \o @]

ImageModel_predict(pipe, image_path, w) ==
    IF image_path.t # "str"
    THEN [ret |-> None, ev |-> <<Ev("os", "exists")>>,
          exc |-> Exc("TypeError", "stat: path should be string, bytes, os.PathLike or integer, not NoneType")]
    ELSE IF ~exists(image_path.v)
         THEN [ret |-> None, ev |-> <<Ev("os", "exists")>>,
               exc |-> Exc("FileNotFoundError", "Image file not found: " \o image_path.v)]
         ELSE LET r == PipeCall(pipe, w, Str("tabby"))
              IN  [r EXCEPT !.ev = <<Ev("os", "exists")>> \o @]

Saved == "Image generated and saved as generated_image.png"

TextToImageModel_predict(v, pipe, text, w) ==
    IF text.t # "str"
    THEN [ret |-> None, exc |-> Exc("ValueError", "Text-to-image model requires text input"), ev |-> <<>>]
    ELSE IF v = "trio"
         THEN LET r == PipeCall(pipe, w, Str(Saved))
              IN  IF r.exc = NoExc THEN [r EXCEPT !.ev = @ \o <<Ev("lib", "save:generated_image.png")>>] ELSE r
         ELSE LET r == IF pipe # "None"
                       THEN PipeCall(pipe, w, Str(Saved))
                       ELSE [ret |-> None, exc |-> Exc("Exception", "Text-to-image model not loaded"), ev |-> <<>>]
              IN  IF r.exc = NoExc
                  THEN [r EXCEPT !.ev = @ \o <<Ev("lib", "save:generated_image.png")>>]
                  ELSE [r EXCEPT !.exc = Exc("Exception", "Text-to-image prediction failed: " \o r.exc.msg)]

Model_predict(v, cls, pipe, x, w) ==
    CASE cls = "SentimentModel" -> SentimentModel_predict(pipe, x, w)
      [] cls = "ImageModel" -> ImageModel_predict(pipe, x, w)
      [] OTHER -> TextToImageModel_predict(v, pipe, x, w)

(***************************************************************************)
(* AIModel, the adapter: [model_type, model_instance, pipe], where         *)
(* model_instance is a class name or "None" and pipe is the instance's     *)
(* pipeline handle.                                                        *)
(***************************************************************************)
\* faulty variant: an unknown key falls back to the sentiment model
create_model_default_sentiment(typ) ==
    CASE typ = "sentiment" -> "SentimentModel"
      [] typ = "image" -> "ImageModel"
      [] typ = "text_to_image" -> "TextToImageModel"
      [] OTHER -> "SentimentModel"

\* AIModel._create_model
create_model(typ) ==
    CASE typ = "sentiment" -> "SentimentModel"
      [] typ = "image" -> "ImageModel"
      [] typ = "text_to_image" -> "TextToImageModel"
      [] OTHER -> "None"

\* AIModel.__init__
AIModel(model_type) ==
    [model_type |-> model_type, model_instance |-> create_model(model_type), pipe |-> "None"]

\* faulty variant: load() of an unknown key raises, as ModelLoader of part_000 does
AIModel_load_strict(v, m, w) ==
    IF m.model_instance # "None"
    THEN LET r == Model_load(v, m.model_instance, m.pipe, w)
         IN  [m |-> [m EXCEPT !.pipe = r.pipe], exc |-> r.exc, ev |-> r.ev]
    ELSE [m |-> m, exc |-> Exc("ValueError", "Unknown model type: " \o m.model_type), ev |-> <<>>]

\* AIModel.load: [m, exc, ev]
AIModel_load(v, m, w) ==
    IF m.model_instance # "None"
    THEN LET r == Model_load(v, m.model_instance, m.pipe, w)
             logged == <<Ev("print", "Log: " \o m.model_type \o " model loaded")>>
         IN  IF r.exc = NoExc
             THEN [m |-> [m EXCEPT !.pipe = r.pipe], exc |-> NoExc, ev |-> r.ev \o logged]
             ELSE [m |-> [m EXCEPT !.pipe = r.pipe], ev |-> r.ev,
                   exc |-> IF v = "main" THEN Exc("Exception", "Model loading failed: " \o r.exc.msg)
                                         ELSE r.exc]
    ELSE [m |-> m, exc |-> NoExc, ev |-> <<>>]

\* AIModel.predict: [ret, exc, ev]
AIModel_predict(v, m, x, w) ==
    IF m.model_instance # "None"
    THEN LET r == Model_predict(v, m.model_instance, m.pipe, x, w)
         IN  IF r.exc = NoExc \/ v = "trio"
             THEN r
             ELSE [r EXCEPT !.exc = Exc("Exception", "Prediction failed: " \o r.exc.msg)]
    ELSE [ret |-> Str("No model selected"), exc |-> NoExc, ev |-> <<>>]

(***************************************************************************)
(* The file system seen by load_file: what open(file).read() gives for     *)
(* each name the file dialog can return.                                   *)
(***************************************************************************)
TextFiles == {"note.txt", "empty.txt", "gone.txt", "latin1.txt"}
ImageFiles == {"cat.png", "gone.png"}

\* open(file, 'r') ... f.read(): [content, exc]
ReadFile(file) ==
    CASE file = "note.txt" -> [content |-> "hello", exc |-> NoExc]
      [] file = "empty.txt" -> [content |-> "", exc |-> NoExc]
      [] file = "gone.txt" ->
            [content |-> "", exc |-> Exc("FileNotFoundError", "[Errno 2] No such file or directory: 'gone.txt'")]
      [] OTHER ->
            [content |-> "", exc |-> Exc("UnicodeDecodeError", "'utf-8' codec can't decode byte 0xe9")]

\* what the external library may do during one handler
Worlds == [load : {"ok", "fail", "fail_to"}, call : BOOLEAN, label : {"POSITIVE", "NEGATIVE"}]

\* the values of the three radio buttons
RadioValues == {"sentiment", "image", "text_to_image"}
\* the entries of the input-type combobox list
ComboValues == {"Text", "Image"}
\* texts a user can type into the (editable) combobox
TypedValues == {"", "Text", "Image", "Audio"}

showerror(msg) == Ev("showerror", msg)

(***************************************************************************)
(* AIApp (gui.py / main.py)                                                *)
(***************************************************************************)
\* the modality test of the run handler
Mismatch(mvar, itype) ==
    \/ (mvar = "image" /\ itype # "Image")
    \/ (mvar \in {"sentiment", "text_to_image"} /\ itype # "Text")

\* faulty variant: the handler without its three checks
run_model_unvalidated(v, idata, cm, mvar, itype, otext, w) ==
    LET pre == <<Ev("print", "Button clicked!")>>
        l == AIModel_load(v, cm, w)
        p == AIModel_predict(v, l.m, idata, w)
    IN  IF l.exc # NoExc
        THEN [current_model |-> l.m, output_text |-> otext, escaped |-> NoExc,
              trace |-> pre \o <<Ev("call", "load")>> \o l.ev \o <<ExcEv(l.exc), showerror("Failed to run model: " \o l.exc.msg)>>]
        ELSE IF p.exc # NoExc
        THEN [current_model |-> l.m, output_text |-> otext, escaped |-> NoExc,
              trace |-> pre \o <<Ev("call", "load")>> \o l.ev \o <<Ev("call", "predict")>> \o p.ev
                        \o <<ExcEv(p.exc), showerror("Failed to run model: " \o p.exc.msg)>>]
        ELSE [current_model |-> l.m, output_text |-> p.ret.v, escaped |-> NoExc,
              trace |-> pre \o <<Ev("call", "load")>> \o l.ev \o <<Ev("call", "predict")>> \o p.ev]

\* faulty variant: predict() is called although load() raised
run_model_ignores_load_failure(v, idata, cm, mvar, itype, otext, w) ==
    LET pre == <<Ev("print", "Button clicked!")>>
        l == AIModel_load(v, cm, w)
        p == AIModel_predict(v, l.m, idata, w)
        upto == pre \o <<Ev("call", "load")>> \o l.ev
                      \o (IF l.exc # NoExc THEN <<ExcEv(l.exc)>> ELSE <<>>)
    IN  IF ~Truthy(idata)
        THEN [current_model |-> cm, output_text |-> otext, escaped |-> NoExc,
              trace |-> pre \o <<showerror("Please load an input file!")>>]
        ELSE IF cm = None
        THEN [current_model |-> cm, output_text |-> otext, escaped |-> NoExc,
              trace |-> pre \o <<showerror("Please select a model!")>>]
        ELSE IF Mismatch(mvar, itype)
        THEN [current_model |-> cm, output_text |-> otext, escaped |-> NoExc,
              trace |-> pre \o <<showerror("Input type does not match model requirements!")>>]
        ELSE IF p.exc # NoExc
        THEN [current_model |-> l.m, output_text |-> otext, escaped |-> NoExc,
              trace |-> upto \o <<Ev("call", "predict")>> \o p.ev
                        \o <<ExcEv(p.exc), showerror("Failed to run model: " \o p.exc.msg)>>]
        ELSE [current_model |-> l.m, output_text |-> p.ret.v, escaped |-> NoExc,
              trace |-> upto \o <<Ev("call", "predict")>> \o p.ev]

\* AIApp._decorated_run_model, whose `except Exception` lets nothing out:
\* [current_model, output_text, escaped, trace]
run_model(v, idata, cm, mvar, itype, otext, w) ==
    LET pre == <<Ev("print", "Button clicked!")>>
        l == AIModel_load(v, cm, w)
        p == AIModel_predict(v, l.m, idata, w)
    IN  IF ~Truthy(idata)
        THEN [current_model |-> cm, output_text |-> otext, escaped |-> NoExc,
              trace |-> pre \o <<showerror("Please load an input file!")>>]
        ELSE IF cm = None
        THEN [current_model |-> cm, output_text |-> otext, escaped |-> NoExc,
              trace |-> pre \o <<showerror("Please select a model!")>>]
        ELSE IF Mismatch(mvar, itype)
        THEN [current_model |-> cm, output_text |-> otext, escaped |-> NoExc,
              trace |-> pre \o <<showerror("Input type does not match model requirements!")>>]
        ELSE IF l.exc # NoExc
        THEN [current_model |-> l.m, output_text |-> otext, escaped |-> NoExc,
              trace |-> pre \o <<Ev("call", "load")>> \o l.ev \o <<ExcEv(l.exc), showerror("Failed to run model: " \o l.exc.msg)>>]
        ELSE IF p.exc # NoExc
        THEN [current_model |-> l.m, output_text |-> otext, escaped |-> NoExc,
              trace |-> pre \o <<Ev("call", "load")>> \o l.ev \o <<Ev("call", "predict")>> \o p.ev
                        \o <<ExcEv(p.exc), showerror("Failed to run model: " \o p.exc.msg)>>]
        ELSE [current_model |-> l.m, output_text |-> p.ret.v, escaped |-> NoExc,
              trace |-> pre \o <<Ev("call", "load")>> \o l.ev \o <<Ev("call", "predict")>> \o p.ev]

\* the Run Model button
decorated_run_model(w) ==
    LET r == run_model(variant, input_data, current_model, model_var, input_type, output_text, w)
    IN  /\ current_model' = r.current_model
        /\ output_text' = r.output_text
        /\ trace' = r.trace
        /\ last' = "_decorated_run_model"
        /\ escaped' = r.escaped
        /\ UNCHANGED <<variant, model_info, input_type, input_data, loaded_as, model_var, info_text,
                       unitVars, sentVars, guiVars>>

\* a radio button: sets model_var, then AIApp.on_model_change
on_model_change(val) ==
    /\ model_var' = val
    /\ current_model' = AIModel(val)
    /\ info_text' = get_info(model_info, val)
    /\ last' = "on_model_change"
    /\ trace' = <<>>
    /\ escaped' = NoExc
    /\ UNCHANGED <<variant, model_info, input_type, input_data, loaded_as, output_text, unitVars, sentVars, guiVars>>

\* faulty variant: the output text is not deleted
on_type_change_keep_output(idata, otext) == [input_data |-> None, output_text |-> otext]

\* the body of AIApp.on_type_change: [input_data, output_text]
on_type_change_body(idata, otext) == [input_data |-> None, output_text |-> ""]

\* choosing an entry of the combobox list: sets its text, then <<ComboboxSelected>>
on_type_change(val) ==
    LET r == on_type_change_body(input_data, output_text)
    IN  /\ input_type' = val
        /\ input_data' = r.input_data
        /\ loaded_as' = ""
        /\ output_text' = r.output_text
        /\ last' = "on_type_change"
        /\ trace' = <<>>
        /\ escaped' = NoExc
        /\ UNCHANGED <<variant, model_info, model_var, current_model, info_text, unitVars, sentVars, guiVars>>

\* typing into the combobox, which is not read-only: no event, no handler
edit_input_type(val) ==
    /\ input_type # val
    /\ input_type' = val
    /\ last' = "edit_input_type"
    /\ trace' = <<>>
    /\ escaped' = NoExc
    /\ UNCHANGED <<variant, model_info, input_data, loaded_as, model_var, current_model, output_text,
                   info_text, unitVars, sentVars, guiVars>>

\* the dialog a failed read ends in
ReadFailure(v, exc) ==
    IF v = "main" /\ exc.type = "FileNotFoundError"
    THEN showerror("Selected file not found!")
    ELSE showerror("Failed to load file: " \o exc.msg)

\* faulty variant: a failed read drops the input loaded before
load_file_body_clears_on_error(v, typ, idata, file) ==
    LET r == ReadFile(file)
    IN  IF typ = "Text"
        THEN IF file = "" THEN [input_data |-> idata, stored |-> FALSE, escaped |-> NoExc, trace |-> <<Ev("dialog", "askopenfilename:*.txt"), Ev("file", file)>>]
             ELSE IF r.exc # NoExc
             THEN [input_data |-> None, stored |-> FALSE, escaped |-> NoExc, trace |-> <<Ev("dialog", "askopenfilename:*.txt"), Ev("file", file), ExcEv(r.exc), ReadFailure(v, r.exc)>>]
             ELSE [input_data |-> Str(r.content), stored |-> TRUE, escaped |-> NoExc, trace |-> <<Ev("dialog", "askopenfilename:*.txt"), Ev("file", file)>>]
        ELSE IF typ = "Image"
        THEN [input_data |-> IF file = "" THEN idata ELSE Str(file), stored |-> file # "", escaped |-> NoExc,
              trace |-> <<Ev("dialog", "askopenfilename:*.jpg *.png"), Ev("file", file)>>]
        ELSE [input_data |-> idata, stored |-> FALSE, escaped |-> NoExc, trace |-> <<showerror("Please select an input type!")>>]

\* faulty variant: the text read is appended to the input held before
load_file_body_appends(v, typ, idata, file) ==
    LET r == ReadFile(file)
    IN  IF typ = "Text"
        THEN IF file = "" THEN [input_data |-> idata, stored |-> FALSE, escaped |-> NoExc, trace |-> <<Ev("dialog", "askopenfilename:*.txt"), Ev("file", file)>>]
             ELSE IF r.exc # NoExc
             THEN [input_data |-> idata, stored |-> FALSE, escaped |-> NoExc, trace |-> <<Ev("dialog", "askopenfilename:*.txt"), Ev("file", file), ExcEv(r.exc), ReadFailure(v, r.exc)>>]
             ELSE [input_data |-> Str(idata.v \o r.content), stored |-> TRUE, escaped |-> NoExc, trace |-> <<Ev("dialog", "askopenfilename:*.txt"), Ev("file", file)>>]
        ELSE IF typ = "Image"
        THEN [input_data |-> IF file = "" THEN idata ELSE Str(idata.v \o file), stored |-> file # "", escaped |-> NoExc,
              trace |-> <<Ev("dialog", "askopenfilename:*.jpg *.png"), Ev("file", file)>>]
        ELSE [input_data |-> idata, stored |-> FALSE, escaped |-> NoExc, trace |-> <<showerror("Please select an input type!")>>]

\* AIApp.load_file, the dialog returning `file` ("" when cancelled):
\* [input_data, stored, escaped, trace]; stored tells whether self.input_data was assigned
load_file_body(v, typ, idata, file) ==
    LET r == ReadFile(file)
    IN  IF typ = "Text"
        THEN IF file = "" THEN [input_data |-> idata, stored |-> FALSE, escaped |-> NoExc, trace |-> <<Ev("dialog", "askopenfilename:*.txt"), Ev("file", file)>>]
             ELSE IF r.exc # NoExc
             THEN [input_data |-> idata, stored |-> FALSE, escaped |-> NoExc, trace |-> <<Ev("dialog", "askopenfilename:*.txt"), Ev("file", file), ExcEv(r.exc), ReadFailure(v, r.exc)>>]
             ELSE [input_data |-> Str(r.content), stored |-> TRUE, escaped |-> NoExc, trace |-> <<Ev("dialog", "askopenfilename:*.txt"), Ev("file", file)>>]
        ELSE IF typ = "Image"
        THEN [input_data |-> IF file = "" THEN idata ELSE Str(file), stored |-> file # "", escaped |-> NoExc,
              trace |-> <<Ev("dialog", "askopenfilename:*.jpg *.png"), Ev("file", file)>>]
        ELSE [input_data |-> idata, stored |-> FALSE, escaped |-> NoExc, trace |-> <<showerror("Please select an input type!")>>]

\* what the file dialog can return under input type typ
DialogChoices(typ) ==
    IF typ = "Text" THEN TextFiles \cup {""}
    ELSE IF typ = "Image" THEN ImageFiles \cup {""}
    ELSE {""}

\* the Load File button
load_file(file) ==
    LET r == load_file_body(variant, input_type, input_data, file)
    IN  /\ file \in DialogChoices(input_type)
        /\ input_data' = r.input_data
        /\ loaded_as' = IF r.stored THEN input_type ELSE loaded_as
        /\ trace' = r.trace
        /\ last' = "load_file"
        /\ escaped' = r.escaped
        /\ UNCHANGED <<variant, model_info, input_type, model_var, current_model, output_text,
                       info_text, unitVars, sentVars, guiVars>>

(***************************************************************************)
(* AIModel and ModelInfo under direct use, with any key                    *)
(***************************************************************************)
Keys == {"sentiment", "image", "text_to_image", "text-to-image", "audio", ""}
Inputs == {None, Str(""), Str("hello"), Str("cat.png"), Str("gone.png")}
NoRet == [arg |-> None, ret |-> None, exc |-> NoExc]

NewAIModel(key) ==
    /\ adapter' = AIModel(key)
    /\ ret' = NoRet
    /\ last' = "AIModel"
    /\ trace' = <<>>
    /\ escaped' = NoExc
    /\ UNCHANGED <<variant, model_info, appVars, sentVars, guiVars>>

CallLoad(w) ==
    LET r == AIModel_load(variant, adapter, w)
    IN  /\ adapter # None
        /\ adapter' = r.m
        /\ ret' = [arg |-> None, ret |-> None, exc |-> r.exc]
        /\ last' = "load"
        /\ trace' = r.ev
        /\ escaped' = r.exc
        /\ UNCHANGED <<variant, model_info, appVars, sentVars, guiVars>>

CallPredict(x, w) ==
    LET r == AIModel_predict(variant, adapter, x, w)
    IN  /\ adapter # None
        /\ ret' = [arg |-> x, ret |-> r.ret, exc |-> r.exc]
        /\ last' = "predict"
        /\ trace' = r.ev
        /\ escaped' = r.exc
        /\ UNCHANGED <<variant, model_info, appVars, adapter, sentVars, guiVars>>

CallGetInfo(key) ==
    /\ ret' = [arg |-> Str(key), ret |-> Str(get_info(model_info, key)), exc |-> NoExc]
    /\ last' = "get_info"
    /\ trace' = <<>>
    /\ escaped' = NoExc
    /\ UNCHANGED <<variant, model_info, appVars, adapter, sentVars, guiVars>>

(***************************************************************************)
(* TextClassificationModel.process_input, the mock sentiment heuristic of  *)
(* part_000.  A text is a sequence of pieces: a blank, or a run of         *)
(* letters; the words of the text are the concatenated runs between        *)
(* blanks.  Confidence is kept in hundredths.                              *)
(***************************************************************************)
MaxLen == 9
Pieces == {" ", "good", "BAD", "x"}
\* the texts of n pieces
Texts(n) == [1..n -> Pieces]

positive_keywords == {"good", "great", "awesome", "excellent", "love", "like"}
negative_keywords == {"bad", "terrible", "awful", "hate", "dislike"}

\* str.lower() on one piece
lower(piece) == IF piece = "BAD" THEN "bad" ELSE piece

\* text_input.lower().split(): the words after piece i, cur being the word begun
RECURSIVE SplitFrom(_, _, _)
SplitFrom(text, i, cur) ==
    IF i > Len(text)
    THEN IF cur = "" THEN <<>> ELSE <<cur>>
    ELSE IF text[i] = " "
         THEN IF cur = "" THEN SplitFrom(text, i + 1, "")
              ELSE <<cur>> \o SplitFrom(text, i + 1, "")
         ELSE SplitFrom(text, i + 1, cur \o lower(text[i]))

split_lower(text) == SplitFrom(text, 1, "")

\* the loop over the words: the net keyword score after the first n words
RECURSIVE ScoreOf(_, _)
ScoreOf(words, n) ==
    IF n = 0 THEN 0
    ELSE ScoreOf(words, n - 1)
         + (IF words[n] \in positive_keywords THEN 1
            ELSE IF words[n] \in negative_keywords THEN -1 ELSE 0)

Abs(n) == IF n < 0 THEN -n ELSE n
Min(a, b) == IF a < b THEN a ELSE b

\* faulty variant: the confidence without min(0.99, ...)
confidence_uncapped(score) == Abs(score) * 10 + 50

\* min(0.99, abs(score) / 10 + 0.5), in hundredths
confidence(score) == Min(99, Abs(score) * 10 + 50)

\* faulty variant: score >= 0 taken as POSITIVE
label_of_no_neutral(score) == IF score >= 0 THEN "POSITIVE" ELSE "NEGATIVE"

label_of(score) == IF score > 0 THEN "POSITIVE" ELSE IF score < 0 THEN "NEGATIVE" ELSE "NEUTRAL"

\* TextClassificationModel.process_input: {"label": ..., "score": ...}
process_input(text) ==
    LET words == split_lower(text)
        score == ScoreOf(words, Len(words))
    IN  [label |-> label_of(score), score |-> confidence(score)]

Classify ==
    /\ result = None
    /\ result' = process_input(text_input)
    /\ last' = "process_input"
    /\ trace' = <<Ev("print", "Classifying text")>>
    /\ UNCHANGED <<variant, model_info, appVars, escaped, unitVars, text_input, guiVars>>

(***************************************************************************)
(* AIGUI, the threaded application of part_000.  A model object is the     *)
(* record of its fields; a worker thread is [kind, pc, input_data,         *)
(* result], idle when its slot is free.  Each statement of a thread        *)
(* function that reads or writes shared state is one step.                 *)
(***************************************************************************)
MaxThreads == 2
MaxQueue == 1

TextToImageModel_obj ==
    [model_name |-> "CompVis/stable-diffusion-v1-4", category |-> "Text-to-Image",
     description |-> "Generates images from text descriptions using diffusion model"]
TextClassificationModel_obj ==
    [model_name |-> "distilbert-base-uncased-finetuned-sst-2-english", category |-> "Text Classification",
     description |-> "Classifies text into positive/negative sentiments"]

\* AIGUI.models
models ==
    [k \in {"text-to-image", "text-classification"} |->
        IF k = "text-to-image" THEN TextToImageModel_obj ELSE TextClassificationModel_obj]

\* BaseModel.get_info
BaseModel_get_info(m) ==
    [name |-> m.model_name, category |-> m.category, description |-> m.description]

\* <Model>.load_model(): the mock prints and returns True; when the print raises
\* (printed = FALSE) the except branch returns False
Model_load_model(m, printed) == printed

\* TextToImageModel._generate_placeholder_image: a 256x256 canvas with the text drawn on it
generate_placeholder_image(text) == [image |-> <<256, 256>>, drawn |-> text]

\* <Model>.process_input(text); when its print raises (printed = FALSE) the except
\* branch returns None
Model_process_input(m, text, printed) ==
    IF ~printed THEN None
    ELSE IF m = TextToImageModel_obj THEN generate_placeholder_image(text) ELSE process_input(text)

\* str.strip() on a text of pieces
RECURSIVE strip(_)
strip(text) ==
    IF text = <<>> THEN <<>>
    ELSE IF Head(text) = " " THEN strip(Tail(text))
    ELSE IF text[Len(text)] = " " THEN strip(SubSeq(text, 1, Len(text) - 1))
    ELSE text

\* what a user types into the input text widget
GuiTexts == {<<>>, <<" ">>, <<" ", "good", " ">>}

\* a worker thread at its first statement; model records, for a processing thread
\* that has not called process_input yet, self.current_model at the click that started it
NewThread(kind, input) ==
    [kind |-> kind, pc |-> "start", input_data |-> input, result |-> None,
     model |-> IF kind = "process" THEN current_model ELSE None]
One(th) == SetToBag({th})
\* thread th takes a step and becomes th2
Step(th, th2) == threads' = (threads (-) One(th)) (+) One(th2)
\* thread th ends
End(th) == threads' = threads (-) One(th)

\* variant with mutual exclusion: a thread starts only when none is running
Start_exclusive(kind, input) ==
    /\ threads = EmptyBag
    /\ threads' = threads (+) One(NewThread(kind, input))

\* threading.Thread(target=..., args=...).start()
Start(kind, input) ==
    /\ BagCardinality(threads) < MaxThreads
    /\ threads' = threads (+) One(NewThread(kind, input))

\* AIGUI.update_model_info, given the current model
update_model_info(cm) == BaseModel_get_info(cm)

\* the combobox (read-only): sets model_var, then AIGUI.on_model_selected
on_model_selected(val) ==
    /\ model_var' = val
    /\ current_model' = models[val]
    /\ info_text' = update_model_info(models[val])
    /\ last' = "on_model_selected"
    /\ trace' = <<>>
    /\ UNCHANGED <<variant, model_info, input_type, input_data, loaded_as, output_text, escaped,
                   unitVars, sentVars, input_text, process_btn, image_display, threads, after_queue, loaded>>

\* the body of AIGUI.on_load_model with model_var = mv
on_load_model_body(mv) ==
    IF mv = ""
    THEN /\ trace' = <<showerror("Please select a model type first")>>
         /\ UNCHANGED <<current_model, threads>>
    ELSE IF mv \in DOMAIN models
    THEN /\ current_model' = models[mv]
         /\ Start("load", <<>>)
         /\ trace' = <<>>
    ELSE /\ trace' = <<showerror("Unknown model type: " \o mv)>>
         /\ UNCHANGED <<current_model, threads>>

\* the Load Model button
on_load_model ==
    /\ on_load_model_body(model_var)
    /\ last' = "on_load_model"
    /\ UNCHANGED <<variant, model_info, input_type, input_data, loaded_as, model_var, output_text, info_text,
                   escaped, unitVars, sentVars, input_text, process_btn, image_display, after_queue, loaded>>

\* the Models menu: AIGUI.load_model(model_type)
load_model(model_type) ==
    /\ model_var' = model_type
    /\ on_load_model_body(model_type)
    /\ last' = "load_model"
    /\ UNCHANGED <<variant, model_info, input_type, input_data, loaded_as, output_text, info_text,
                   escaped, unitVars, sentVars, input_text, process_btn, image_display, after_queue, loaded>>

\* typing into the input text widget
type_input(text) ==
    /\ input_text # text
    /\ input_text' = text
    /\ UNCHANGED <<variant, model_info, appVars, obsVars, unitVars, sentVars,
                   process_btn, image_display, threads, after_queue, loaded>>

\* the Process Input button, which a disabled button does not deliver
on_process_input ==
    /\ process_btn = "normal"
    /\ last' = "on_process_input"
    /\ IF current_model = None
       THEN /\ trace' = <<showerror("Please load a model first")>>
            /\ UNCHANGED threads
       ELSE IF strip(input_text) = <<>>
       THEN /\ trace' = <<showerror("Please enter some input text")>>
            /\ UNCHANGED threads
       ELSE /\ Start("process", strip(input_text))
            /\ trace' = <<>>
    /\ UNCHANGED <<variant, model_info, appVars, escaped, unitVars, sentVars,
                   input_text, process_btn, image_display, after_queue, loaded>>

\* what no step of a worker thread changes
ThreadFrame == <<variant, model_info, input_type, input_data, loaded_as, model_var, current_model,
                 obsVars, unitVars, sentVars, input_text>>

\* _load_model_thread: self.process_btn.config(state=tk.DISABLED)
load_thread_disable(th) ==
    /\ th.kind = "load" /\ th.pc = "start"
    /\ process_btn' = "disabled"
    /\ Step(th, [th EXCEPT !.pc = "load_model"])
    /\ UNCHANGED <<ThreadFrame, output_text, info_text, image_display, after_queue, loaded>>

\* success = self.current_model.load_model(), then the dialog of its outcome opens
load_thread_load_model(th, printed) ==
    /\ th.kind = "load" /\ th.pc = "load_model"
    /\ Step(th, [th EXCEPT !.pc = IF Model_load_model(current_model, printed) THEN "showinfo" ELSE "showerror"])
    /\ loaded' = IF Model_load_model(current_model, printed) THEN loaded \cup {current_model} ELSE loaded
    /\ UNCHANGED <<ThreadFrame, output_text, info_text, process_btn, image_display, after_queue>>

\* the user closes the thread's dialog; after showinfo, self.process_btn.config(state=tk.NORMAL)
load_thread_dismiss(th) ==
    /\ th.kind = "load" /\ th.pc \in {"showinfo", "showerror"}
    /\ IF th.pc = "showinfo"
       THEN /\ process_btn' = "normal"
            /\ Step(th, [th EXCEPT !.pc = "update_model_info"])
       ELSE /\ End(th)
            /\ UNCHANGED process_btn
    /\ UNCHANGED <<ThreadFrame, output_text, info_text, image_display, after_queue, loaded>>

\* self.update_model_info(), and the thread ends
load_thread_update_info(th) ==
    /\ th.kind = "load" /\ th.pc = "update_model_info"
    /\ info_text' = update_model_info(current_model)
    /\ End(th)
    /\ UNCHANGED <<ThreadFrame, output_text, process_btn, image_display, after_queue, loaded>>

\* _process_input_thread: self.process_btn.config(state=tk.DISABLED)
process_thread_disable(th) ==
    /\ th.kind = "process" /\ th.pc = "start"
    /\ process_btn' = "disabled"
    /\ Step(th, [th EXCEPT !.pc = "process_input"])
    /\ UNCHANGED <<ThreadFrame, output_text, info_text, image_display, after_queue, loaded>>

\* result = self.current_model.process_input(input_data)
process_thread_process(th, printed) ==
    /\ th.kind = "process" /\ th.pc = "process_input"
    /\ Step(th, [th EXCEPT !.pc = "after", !.model = None,
                            !.result = Model_process_input(current_model, th.input_data, printed)])
    /\ UNCHANGED <<ThreadFrame, output_text, info_text, process_btn, image_display, after_queue, loaded>>

\* self.after(0, self._update_output, result, input_data)
process_thread_after(th) ==
    /\ th.kind = "process" /\ th.pc = "after"
    /\ Len(after_queue) < MaxQueue
    /\ after_queue' = Append(after_queue, [result |-> th.result, input_data |-> th.input_data])
    /\ Step(th, [th EXCEPT !.pc = "enable", !.result = None])
    /\ UNCHANGED <<ThreadFrame, output_text, info_text, process_btn, image_display, loaded>>

\* self.process_btn.config(state=tk.NORMAL), and the thread ends
process_thread_enable(th) ==
    /\ th.kind = "process" /\ th.pc = "enable"
    /\ process_btn' = "normal"
    /\ End(th)
    /\ UNCHANGED <<ThreadFrame, output_text, info_text, image_display, after_queue, loaded>>

\* faulty variant: a result that is neither image nor record blanks the display
update_output_body_clears_on_failure(res, input, otext, img) ==
    IF "image" \in DOMAIN res
    THEN [output_text |-> <<"Generated image from: ", input>>, image_display |-> res, trace |-> <<>>]
    ELSE IF "label" \in DOMAIN res
    THEN [output_text |-> <<"Result: ", res>>, image_display |-> None, trace |-> <<>>]
    ELSE [output_text |-> <<>>, image_display |-> None, trace |-> <<showerror("Failed to process input")>>]

\* AIGUI._update_output(result, input_data): [output_text, image_display, trace]
update_output_body(res, input, otext, img) ==
    IF "image" \in DOMAIN res
    THEN [output_text |-> <<"Generated image from: ", input>>, image_display |-> res, trace |-> <<>>]
    ELSE IF "label" \in DOMAIN res
    THEN [output_text |-> <<"Result: ", res>>, image_display |-> None, trace |-> <<>>]
    ELSE [output_text |-> otext, image_display |-> img, trace |-> <<showerror("Failed to process input")>>]

\* the main loop runs the first scheduled callback
update_output ==
    /\ after_queue # <<>>
    /\ LET cb == Head(after_queue)
           r == update_output_body(cb.result, cb.input_data, output_text, image_display)
       IN  /\ output_text' = r.output_text
           /\ image_display' = r.image_display
           /\ trace' = r.trace
    /\ after_queue' = Tail(after_queue)
    /\ last' = "_update_output"
    /\ UNCHANGED <<variant, model_info, input_type, input_data, loaded_as, model_var, current_model, info_text,
                   escaped, unitVars, sentVars, input_text, process_btn, threads, loaded>>

(***************************************************************************)
(* Specifications                                                          *)
(***************************************************************************)
\* AIApp.__init__ and setup_ui, which ends in on_model_change()
InitApp ==
    /\ variant \in Variants
    /\ model_info = ModelInfo_init(variant)
    /\ input_type = ""
    /\ input_data = None
    /\ loaded_as = ""
    /\ model_var = "sentiment"
    /\ current_model = AIModel("sentiment")
    /\ output_text = ""
    /\ info_text = get_info(model_info, "sentiment")
    /\ last = "init"
    /\ trace = <<>>
    /\ escaped = NoExc

IdleUnit == adapter = None /\ ret = NoRet
IdleSent == text_input = <<>> /\ result = None
IdleGui ==
    /\ input_text = <<>>
    /\ process_btn = "normal"
    /\ image_display = None
    /\ threads = EmptyBag
    /\ after_queue = <<>>
    /\ loaded = {}

Init == InitApp /\ IdleUnit /\ IdleSent /\ IdleGui

Next ==
    \/ \E w \in Worlds : decorated_run_model(w)
    \/ \E val \in RadioValues : on_model_change(val)
    \/ \E val \in ComboValues : on_type_change(val)
    \/ \E val \in TypedValues : edit_input_type(val)
    \/ \E file \in TextFiles \cup ImageFiles \cup {""} : load_file(file)

\* the synchronous application AIApp
Spec == Init /\ [][Next]_vars

NextUnit ==
    \/ \E key \in Keys : NewAIModel(key)
    \/ \E w \in Worlds : CallLoad(w)
    \/ \E x \in Inputs, w \in Worlds : CallPredict(x, w)
    \/ \E key \in Keys : CallGetInfo(key)
    \/ \E val \in RadioValues : on_model_change(val)

\* no AIApp is running
IdleApp ==
    /\ variant = "part_000"
    /\ model_info = <<>>
    /\ input_type = ""
    /\ input_data = None
    /\ loaded_as = ""
    /\ model_var = ""
    /\ current_model = None
    /\ output_text = ""
    /\ info_text = ""
    /\ last = "init"
    /\ trace = <<>>
    /\ escaped = NoExc

InitSentiment ==
    /\ IdleApp /\ IdleUnit /\ IdleGui
    /\ \E n \in 0..MaxLen : text_input \in Texts(n)
    /\ result = None

NextSentiment == Classify

\* the mock sentiment heuristic applied to every bounded text
SpecSentiment == InitSentiment /\ [][NextSentiment]_vars

\* AIGUI.__init__
InitGUI ==
    /\ variant = "part_000"
    /\ model_info = <<>>
    /\ input_type = ""
    /\ input_data = None
    /\ loaded_as = ""
    /\ model_var = ""
    /\ current_model = None
    /\ output_text = <<>>
    /\ info_text = "Select a model to see information"
    /\ last = "init"
    /\ trace = <<>>
    /\ escaped = NoExc
    /\ IdleUnit /\ IdleSent
    /\ input_text = <<>>
    /\ process_btn = "normal"
    /\ image_display = None
    /\ threads = EmptyBag
    /\ after_queue = <<>>
    /\ loaded = {}

NextGUI ==
    \/ \E val \in DOMAIN models : on_model_selected(val)
    \/ on_load_model
    \/ \E model_type \in DOMAIN models : load_model(model_type)
    \/ \E text \in GuiTexts : type_input(text)
    \/ on_process_input
    \/ \E th \in BagToSet(threads) : load_thread_disable(th)
    \/ \E th \in BagToSet(threads), printed \in BOOLEAN : load_thread_load_model(th, printed)
    \/ \E th \in BagToSet(threads) : load_thread_dismiss(th)
    \/ \E th \in BagToSet(threads) : load_thread_update_info(th)
    \/ \E th \in BagToSet(threads) : process_thread_disable(th)
    \/ \E th \in BagToSet(threads), printed \in BOOLEAN : process_thread_process(th, printed)
    \/ \E th \in BagToSet(threads) : process_thread_after(th)
    \/ \E th \in BagToSet(threads) : process_thread_enable(th)
    \/ update_output

\* the threaded application AIGUI
SpecGUI == InitGUI /\ [][NextGUI]_vars

\* AIModel and ModelInfo called directly, beside the application's own use of them
SpecUnit == Init /\ [][NextUnit]_vars

(***************************************************************************)
(* Properties                                                              *)
(***************************************************************************)
Has(tr, e) == \E i \in DOMAIN tr : tr[i] = e
HasKind(tr, k) == \E i \in DOMAIN tr : tr[i].k = k
Count(tr, k) == Cardinality({i \in DOMAIN tr : tr[i].k = k})

\* the type an AIModel's instance must have for its key
RightInstance(m) ==
    /\ m.model_type = "sentiment" => m.model_instance = "SentimentModel"
    /\ m.model_type = "image" => m.model_instance = "ImageModel"
    /\ m.model_type = "text_to_image" => m.model_instance = "TextToImageModel"
    /\ m.model_type \notin {"sentiment", "image", "text_to_image"} => m.model_instance = "None"

\* C1: every AIModel, the one built directly from any key and the one on_model_change
\* builds, holds an instance of the class of its key, and None for any other key.
C1_FactoryByKey ==
    /\ adapter # None => RightInstance(adapter)
    /\ RightInstance(current_model)
    /\ current_model.model_type = model_var

C1_Witness ==
    /\ adapter # None /\ adapter.model_type = "audio" /\ adapter.model_instance = "None"
    /\ last = "on_model_change" /\ current_model.model_instance = "ImageModel"

\* C2: on an AIModel of an unknown key, load() raises nothing, logs nothing and changes
\* nothing, and predict(x) returns "No model selected" whatever x is.
C2_UnknownKeyIsInert ==
    (adapter # None /\ adapter.model_type \notin {"sentiment", "image", "text_to_image"}) =>
        /\ adapter = [model_type |-> adapter.model_type, model_instance |-> "None", pipe |-> "None"]
        /\ last = "load" => (ret.exc = NoExc /\ trace = <<>> /\ escaped = NoExc)
        /\ last = "predict" => (ret.ret = Str("No model selected") /\ ret.exc = NoExc /\ trace = <<>>)

C2_Witness ==
    /\ adapter # None /\ adapter.model_type = "audio"
    /\ last = "predict" /\ ret.arg = Str("hello") /\ ret.ret = Str("No model selected")

\* the description each variant registers for a key
Registered(v, key) ==
    CASE key = "sentiment" ->
            IF v = "trio" THEN "DistilBERT for sentiment analysis."
            ELSE "DistilBERT for sentiment analysis: Classifies text as positive/negative."
      [] key = "image" ->
            IF v = "trio" THEN "CLIP for image classification."
            ELSE "CLIP for image classification: Describes or classifies images."
      [] key = "text_to_image" ->
            IF v = "trio" THEN "Stable Diffusion v1-5 for text-to-image."
            ELSE "Stable Diffusion v1-5: Generates images from text."
      [] OTHER -> "No info available"

\* C3: get_info(key) is the registered description of a known key and 'No info available'
\* for any other key; the mapping has exactly the three keys and stays as constructed.
C3_GetInfo ==
    /\ DOMAIN model_info = {"sentiment", "image", "text_to_image"}
    /\ \A k \in DOMAIN model_info : model_info[k] = Registered(variant, k)
    /\ last = "get_info" => ret.ret = Str(Registered(variant, ret.arg.v))
    /\ info_text = Registered(variant, model_var)

C3_Witness ==
    /\ last = "get_info" /\ ret.arg = Str("audio") /\ ret.ret = Str("No info available")

\* how many of the words are in the list
Listed(words, list) == Cardinality({i \in DOMAIN words : words[i] \in list})

\* C4: a text whose words are all positive keywords is POSITIVE with confidence
\* min(0.99, n/10 + 0.5), n the number of words; one whose words are all negative keywords
\* is NEGATIVE with the same confidence; an empty text, one without keywords and one with
\* as many positive as negative keywords is NEUTRAL with confidence 0.5.
C4_Heuristic ==
    last = "process_input" =>
        LET words == split_lower(text_input)
            n == Len(words)
            pos == Listed(words, {"good", "great", "awesome", "excellent", "love", "like"})
            neg == Listed(words, {"bad", "terrible", "awful", "hate", "dislike"})
            capped == IF 10 * n + 50 > 99 THEN 99 ELSE 10 * n + 50
        IN  /\ (n > 0 /\ pos = n) => result = [label |-> "POSITIVE", score |-> capped]
            /\ (n > 0 /\ neg = n) => result = [label |-> "NEGATIVE", score |-> capped]
            /\ pos = neg => result = [label |-> "NEUTRAL", score |-> 50]

C4_Witness ==
    /\ last = "process_input" /\ text_input = <<"good", " ", " ", "good">>
    /\ result = [label |-> "POSITIVE", score |-> 70]

\* C5: the confidence is between 0.5 and 0.99, is 0.5 exactly when the label is NEUTRAL,
\* and is 0.99 once the net keyword score is 5 or more in absolute value.
C5_ConfidenceRange ==
    last = "process_input" =>
        LET words == split_lower(text_input)
            net == Listed(words, {"good", "great", "awesome", "excellent", "love", "like"})
                   - Listed(words, {"bad", "terrible", "awful", "hate", "dislike"})
        IN  /\ result.score >= 50 /\ result.score <= 99
            /\ result.score = 50 <=> result.label = "NEUTRAL"
            /\ (net >= 5 \/ net <= -5) => result.score = 99
            /\ (net < 5 /\ net > -5) => result.score < 99

C5_Witness ==
    /\ last = "process_input" /\ result = [label |-> "NEGATIVE", score |-> 99]

\* C6: predict of the image model on a path that does not exist raises the file-not-found
\* error right after the existence test, the pipeline not being called, loaded or not.
C6_NotFoundBeforePipeline ==
    (/\ last = "predict" /\ adapter.model_instance = "ImageModel"
     /\ ret.arg.t = "str" /\ ret.arg.v \notin ExistingPaths) =>
        /\ trace = <<Ev("os", "exists")>>
        /\ \A w \in Worlds :
              ImageModel_predict(adapter.pipe, ret.arg, w).exc
                  = Exc("FileNotFoundError", "Image file not found: " \o ret.arg.v)
        /\ ret.exc = IF variant = "trio"
                     THEN Exc("FileNotFoundError", "Image file not found: " \o ret.arg.v)
                     ELSE Exc("Exception", "Prediction failed: Image file not found: " \o ret.arg.v)

C6_Witness ==
    /\ last = "predict" /\ adapter.model_instance = "ImageModel" /\ adapter.pipe = "loaded"
    /\ ret.arg = Str("gone.png") /\ ret.exc # NoExc

\* C7: on_type_change sets input_data to None and empties the output text, and leaves
\* model_var, current_model and the model-info text as they were.
C7_TypeChangeClears ==
    [][last' = "on_type_change" =>
          /\ input_data' = None
          /\ output_text' = ""
          /\ UNCHANGED <<model_var, current_model, info_text>>]_vars

C7_Witness ==
    /\ last = "on_type_change" /\ current_model.pipe = "loaded"
    /\ input_data = None /\ output_text = ""

\* the three validations of the run handler, as the claim states them
C8_Valid ==
    /\ input_data # None /\ input_data.v # ""
    /\ current_model # None
    /\ \/ model_var = "image" /\ input_type = "Image"
       \/ model_var \in {"sentiment", "text_to_image"} /\ input_type = "Text"

\* C8: the run handler calls load() and predict() only when the three validations pass;
\* when one fails it shows exactly one error dialog, calls neither, and leaves the output.
C8_RunOnlyWhenValid ==
    [][last' = "_decorated_run_model" =>
          /\ (Has(trace', Ev("call", "load")) \/ Has(trace', Ev("call", "predict"))
                \/ HasKind(trace', "lib")) => C8_Valid
          /\ C8_Valid => Has(trace', Ev("call", "load"))
          /\ ~C8_Valid =>
                /\ Count(trace', "showerror") = 1
                /\ Count(trace', "call") = 0 /\ Count(trace', "lib") = 0
                /\ output_text' = output_text]_vars

C8_Witness ==
    /\ last = "_decorated_run_model"
    /\ input_data = Str("hello") /\ model_var = "image" /\ input_type = "Text"
    /\ Has(trace, showerror("Input type does not match model requirements!"))

\* what a failed run or file load must leave alone
C9_StateKept ==
    /\ input_data' = input_data
    /\ model_var' = model_var
    /\ current_model'.model_type = current_model.model_type
    /\ current_model'.model_instance = current_model.model_instance
    /\ output_text' = output_text
    /\ escaped' = NoExc

\* every caught exception is followed by a dialog carrying str(e)
C9_DialogCarries(tr) ==
    \A i \in DOMAIN tr : tr[i].k = "except" =>
        /\ i + 1 \in DOMAIN tr
        /\ tr[i + 1] \in {showerror("Failed to run model: " \o tr[i].a),
                          showerror("Failed to load file: " \o tr[i].a)}

\* the same, but for main.py's load_file, which reports FileNotFoundError as
\* "Selected file not found!"
C9_DialogCarriesOrNotFound(tr) ==
    \A i \in DOMAIN tr : tr[i].k = "except" =>
        /\ i + 1 \in DOMAIN tr
        /\ IF variant = "main" /\ last' = "load_file" /\ tr[i].type = "FileNotFoundError"
           THEN tr[i + 1] = showerror("Selected file not found!")
           ELSE tr[i + 1] \in {showerror("Failed to run model: " \o tr[i].a),
                               showerror("Failed to load file: " \o tr[i].a)}

\* C9 as stated: a failed run or file load shows a dialog carrying the stringified
\* exception, keeps input_data, the model selection and the output, and raises nothing.
C9_Original ==
    [][(last' \in {"_decorated_run_model", "load_file"} /\ HasKind(trace', "showerror")) =>
          /\ C9_StateKept
          /\ Count(trace', "showerror") = 1
          /\ C9_DialogCarries(trace')]_vars

\* C9 amended: the same, except that main.py's load_file reports a FileNotFoundError
\* with the fixed text "Selected file not found!" instead of the exception's text.
C9_FailureKeepsState ==
    [][(last' \in {"_decorated_run_model", "load_file"} /\ HasKind(trace', "showerror")) =>
          /\ C9_StateKept
          /\ Count(trace', "showerror") = 1
          /\ C9_DialogCarriesOrNotFound(trace')]_vars

C9_Witness ==
    /\ variant = "main" /\ last = "load_file" /\ input_data = Str("hello")
    /\ Has(trace, showerror("Selected file not found!"))

\* a handler step that starts one more worker thread
Spawns(handler) == handler /\ BagCardinality(threads') = BagCardinality(threads) + 1

\* C10: nothing excludes a second worker while one is in flight: with a worker running,
\* Load Model (a model being selected) and the Models menu still start another one, and so
\* does Process Input whenever its own checks pass and its button is not disabled.
C10_NoMutualExclusion ==
    (threads # EmptyBag /\ BagCardinality(threads) < MaxThreads) =>
        /\ model_var # "" => ENABLED Spawns(on_load_model)
        /\ ENABLED Spawns(load_model("text-classification"))
        /\ (current_model # None /\ strip(input_text) # <<>> /\ process_btn = "normal")
              => ENABLED Spawns(on_process_input)

\* two workers in flight at once, each about to use self.current_model
C10_Witness ==
    /\ \E th \in BagToSet(threads) : th.kind = "process" /\ th.pc = "process_input"
    /\ \E th \in BagToSet(threads) : th.kind = "load" /\ th.pc = "load_model"


\* the file the dialog of a load_file run returned ("" when it was cancelled)
ChosenFile(tr) == LET i == CHOOSE i \in DOMAIN tr : tr[i].k = "file" IN tr[i].a

\* C12 as stated: after every load_file with input type Text or Image in which a file
\* was chosen, input_data is exactly the file's content (Text) or its path (Image);
\* with any other input type an error is shown and input_data is left alone.
C12_Original ==
    [][last' = "load_file" =>
          IF input_type \in {"Text", "Image"}
          THEN /\ HasKind(trace', "file")
               /\ LET f == ChosenFile(trace')
                  IN  f # "" =>
                        IF input_type = "Text"
                        THEN ReadFile(f).exc = NoExc /\ input_data' = Str(ReadFile(f).content)
                        ELSE input_data' = Str(f)
          ELSE /\ trace' = <<showerror("Please select an input type!")>>
               /\ input_data' = input_data]_vars

\* C12 amended: a load_file whose dialog returned a file that could be read (Text) or
\* any file (Image) replaces input_data by exactly that content or path; a cancelled
\* dialog or a failed read leaves input_data as it was; with any other input type an
\* error is shown and input_data is left alone.
C12_LoadReplaces ==
    [][last' = "load_file" =>
          IF input_type \in {"Text", "Image"}
          THEN /\ HasKind(trace', "file")
               /\ LET f == ChosenFile(trace')
                  IN  IF f = "" \/ (input_type = "Text" /\ ReadFile(f).exc # NoExc)
                      THEN input_data' = input_data
                      ELSE input_data' = IF input_type = "Text" THEN Str(ReadFile(f).content)
                                                                ELSE Str(f)
          ELSE /\ trace' = <<showerror("Please select an input type!")>>
               /\ input_data' = input_data]_vars

C12_Witness ==
    /\ last = "load_file" /\ input_type = "Image"
    /\ Has(trace, Ev("file", "gone.png"))
    /\ input_data = Str("gone.png")

\* C13: every predict() of the run handler comes after a load() of the same AIModel in
\* the same run with no exception in between (so none after a load() that raised), the
\* model predicted on holds the pipeline that load() made, every valid run calls load()
\* and instantiates the pipeline again, and on_model_change leaves an unloaded AIModel.
C13_LoadBeforePredict ==
    [][/\ last' = "_decorated_run_model" =>
            /\ \A j \in DOMAIN trace' : trace'[j] = Ev("call", "predict") =>
                  \E i \in 1..(j - 1) :
                      /\ trace'[i] = Ev("call", "load")
                      /\ \A n \in i..j : trace'[n].k # "except"
                      /\ \E n \in i..j : trace'[n].k = "lib" /\ trace'[n].a = "pipeline:" \o Task(current_model.model_instance)
            /\ Has(trace', Ev("call", "predict")) => current_model'.pipe = "loaded"
            /\ C8_Valid => Has(trace', Ev("call", "load")) /\ HasKind(trace', "lib")
       /\ last' = "on_model_change" => current_model'.pipe = "None"]_vars

C13_Witness ==
    /\ last = "_decorated_run_model"
    /\ Has(trace, Ev("call", "load")) /\ HasKind(trace, "except")
    /\ ~Has(trace, Ev("call", "predict"))

\* C17 as stated: input_data, when not None, was loaded under the input type now
\* selected; so a predict() of the image model gets a path and one of a text model text.
C17_Original ==
    [][/\ input_data' # None => loaded_as' = input_type'
       /\ (last' = "_decorated_run_model" /\ Has(trace', Ev("call", "predict"))) =>
            /\ model_var = "image" => loaded_as = "Image"
            /\ model_var \in {"sentiment", "text_to_image"} => loaded_as = "Text"]_vars


\* a step of a worker thread: the bag of threads changes without growing
WorkerStep == threads' # threads /\ BagCardinality(threads') <= BagCardinality(threads)
\* the main loop runs a scheduled callback
CallbackStep == after_queue # <<>> /\ after_queue' = Tail(after_queue)
\* the widgets of AIGUI that the handlers and threads write
Widgets == <<process_btn, info_text, output_text, image_display>>

\* C11 as stated: once every spawned worker has finished, whatever load_model and
\* process_input returned, the Process button is enabled again and a further load or
\* process action can be started.
C11_Original ==
    threads = EmptyBag =>
        /\ process_btn = "normal"
        /\ ENABLED on_process_input
        /\ ENABLED Spawns(load_model("text-classification"))

\* C14 as stated: _update_output runs on the main loop only, once per processing
\* worker and after that worker's process_input returned, and a worker thread writes
\* no widget itself.
C14_Original ==
    [][/\ CallbackStep => threads' = threads
       /\ Len(after_queue') > Len(after_queue) =>
            \E th \in BagToSet(threads) :
                /\ th.kind = "process" /\ th.pc = "after"
                /\ threads' = (threads (-) One(th)) (+) One([th EXCEPT !.pc = "enable", !.result = None])
                /\ after_queue' = Append(after_queue, [result |-> th.result, input_data |-> th.input_data])
       /\ WorkerStep => Widgets' = Widgets]_vars

\* C15 as stated: process_input is only ever invoked on a model whose load_model() has
\* returned True before, and with a text that is not empty after stripping.
C15_Original ==
    [][\A th \in BagToSet(threads), printed \in BOOLEAN :
          process_thread_process(th, printed) =>
              /\ current_model \in loaded
              /\ strip(th.input_data) # <<>>]_vars

\* C16: _update_output(result, input_data) shows an image result with the text
\* "Generated image from: <input>", shows a label/score record as "Result: <record>"
\* and clears the image, and for anything else (None) opens the dialog "Failed to
\* process input" and leaves the output text and the image as they were.
C16_UpdateOutput ==
    [][CallbackStep =>
          LET cb == Head(after_queue)
          IN  IF cb.result = generate_placeholder_image(cb.input_data)
              THEN /\ output_text' = <<"Generated image from: ", cb.input_data>>
                   /\ image_display' = cb.result
                   /\ trace' = <<>>
              ELSE IF cb.result = process_input(cb.input_data)
              THEN /\ output_text' = <<"Result: ", cb.result>>
                   /\ image_display' = None
                   /\ trace' = <<>>
              ELSE /\ cb.result = None
                   /\ trace' = <<showerror("Failed to process input")>>
                   /\ output_text' = output_text /\ image_display' = image_display]_vars

C16_Witness ==
    /\ last = "_update_output"
    /\ trace = <<showerror("Failed to process input")>>
    /\ output_text # <<>> /\ image_display # None

\* C18 as stated: the result of a Process click is computed from the text captured at
\* the click and by the model that was current_model at the click.
C18_Original ==
    [][\A th \in BagToSet(threads), printed \in BOOLEAN :
          process_thread_process(th, printed) =>
              /\ current_model = th.model
              /\ \A th2 \in BagToSet(threads') \ BagToSet(threads) :
                    th2.result = Model_process_input(th.model, th.input_data, printed)]_vars

=============================================================================
